---- MODULE Spec2Model ----
(***************************************************************************)
(* Transaction submission and confirmation core.                           *)
(*                                                                         *)
(* One call of sendAndConfirmTransaction (src/src/utils.ts) together with  *)
(* the activities it starts: the resubmission loop of                      *)
(* sendSignedTransaction (src/unnamed/part_001), the confirmation watcher  *)
(* awaitTransactionSignatureConfirmation (src/src/transactions/confirm.ts),*)
(* the static and expiration timeout policies and the interruptible delay. *)
(*                                                                         *)
(* JavaScript runs every callback to completion, so one action is one      *)
(* stretch of synchronous code between two suspension points.  A           *)
(* continuation of a settled promise is a microtask: it runs before any    *)
(* timer or network callback, which is what MicrotaskPending states.       *)
(*                                                                         *)
(* The RPC collaborator (Connection) is the environment: every answer it   *)
(* can give is chosen with \E.  The lifecycle callback is either supplied  *)
(* (and returns normally) or omitted, as the optional parameter allows.    *)
(***************************************************************************)
EXTENDS Integers, Sequences, FiniteSets, TLC

(***************************************************************************)
(* Bounds of the model.                                                    *)
(***************************************************************************)
MaxSends == 2
MaxPolls == 2
MaxValidityPolls == 2
MaxRequiredLevels == 3
MaxMs == 3

(***************************************************************************)
(* Values.                                                                 *)
(***************************************************************************)
NoValue == [kind |-> "undefined", index |-> -1]

\* TRANSACTION_CONFIRMATION_VALUES, confirm.ts:20-24
TRANSACTION_CONFIRMATION_VALUES == {"processed", "confirmed", "finalized"}

\* enum TransactionConfirmationStatusEnum, confirm.ts:38-42
TransactionConfirmationStatusEnum(s) ==
  CASE s = "processed" -> 1
    [] s = "confirmed" -> 2
    [] s = "finalized" -> 3

\* Commitment values a subscription can be set up with; "recent" stands for
\* the Commitment values that are no TransactionConfirmationStatus.
Commitments == TRANSACTION_CONFIRMATION_VALUES \cup {"recent"}

\* requiredConfirmationLevels arguments explored
RequiredLevelSets == {{"confirmed"}, {"processed", "finalized"}}

\* the instructions of the signed transaction, by reference
Instructions == <<"ix0", "ix1", "ix2">>

\* On-chain error payloads: InstructionError [index, name], or another error.
TransactionErrors ==
  {[kind |-> "InstructionError", index |-> i] : i \in 0..(Len(Instructions) - 1)}
    \cup {[kind |-> "AccountInUse", index |-> -1]}

\* Signature byte strings (shortened from 64 bytes).
LegacySignature == <<0, 7>>
VersionedSignature == <<1, 200>>

\* A signature slot of a legacy Transaction may hold null.
NullSignature == <<>>

SignedTransactions ==
  {[kind |-> "legacy", signatures |-> s] :
      s \in {<<>>, <<NullSignature>>, <<LegacySignature>>}}
    \cup
  {[kind |-> "versioned", signatures |-> s] :
      s \in {<<>>, <<VersionedSignature>>}}

Configs ==
  [type : {"static", "expiration", "none"},
   continuouslySendTransactions : BOOLEAN,
   initialConfirmationCommitment : Commitments,
   requiredConfirmationLevels : RequiredLevelSets]

\* handles connection.onSignature can return (client subscription ids count from 0)
SubscriptionIds == {0, 1}

\* what connection.onSignature can do: return a handle, or throw
OnSignatureAnswers ==
  {[threw |-> FALSE, id |-> i] : i \in SubscriptionIds}
    \cup {[threw |-> TRUE, id |-> -1]}

(***************************************************************************)
(* base58.encode, as bs58 computes it: one leading "1" (digit 0) per       *)
(* leading zero byte, then the big-endian number in base 58.  The result   *)
(* is the sequence of alphabet positions.                                  *)
(***************************************************************************)
RECURSIVE BytesToNat(_)
BytesToNat(bytes) ==
  IF bytes = <<>> THEN 0
  ELSE 256 * BytesToNat(SubSeq(bytes, 1, Len(bytes) - 1)) + bytes[Len(bytes)]

RECURSIVE Base58Digits(_)
Base58Digits(n) ==
  IF n = 0 THEN <<>> ELSE Append(Base58Digits(n \div 58), n % 58)

RECURSIVE LeadingZeros(_)
LeadingZeros(bytes) ==
  IF bytes = <<>> \/ bytes[1] # 0 THEN 0 ELSE 1 + LeadingZeros(Tail(bytes))

base58encode(bytes) ==
  [i \in 1..LeadingZeros(bytes) |-> 0] \o Base58Digits(BytesToNat(bytes))

(***************************************************************************)
(* signedTransaction.serialize() (web3.js): a legacy Transaction verifies  *)
(* its signatures and throws when one is missing; a VersionedTransaction   *)
(* serializes whatever signatures it holds.                                *)
(***************************************************************************)
serializeThrows(transaction) ==
  /\ transaction.kind = "legacy"
  /\ \/ Len(transaction.signatures) = 0
     \/ transaction.signatures[1] = NullSignature

\* getTransactionSignatureOrThrow, transactions/utils.ts:61-74
getTransactionSignatureOrThrow(transaction) ==
  IF Len(transaction.signatures) = 0
    THEN [threw |-> TRUE, message |-> "Transaction does not have any signatures",
          id |-> <<>>]
  ELSE IF transaction.signatures[1] = NullSignature
    THEN [threw |-> TRUE, message |-> "Invalid signature", id |-> <<>>]
  ELSE [threw |-> FALSE, message |-> "",
        id |-> base58encode(transaction.signatures[1])]

(***************************************************************************)
(* areConfirmationLevelsSatisfied, confirm.ts:51-62.  Math.max() of no     *)
(* argument is -Infinity, so an empty requirement is met by any status.    *)
(***************************************************************************)
MinOf(S) == CHOOSE m \in S : \A x \in S : m <= x

MaxOf(S) == CHOOSE m \in S : \A x \in S : x <= m

areConfirmationLevelsSatisfied(requiredStatuses, currentStatus) ==
  IF currentStatus = "undefined" THEN FALSE
  ELSE IF requiredStatuses = {} THEN TRUE
  ELSE TransactionConfirmationStatusEnum(currentStatus)
         >= MaxOf({TransactionConfirmationStatusEnum(s) : s \in requiredStatuses})

(***************************************************************************)
(* AbortController.  listeners: the "abort" listeners registered on the    *)
(* signal; invoked: how often each has been called; abortCalls: how often  *)
(* controller.abort() was performed.  abort() on an aborted controller     *)
(* dispatches nothing.                                                     *)
(***************************************************************************)
SleepListeners == {"sendSleep", "pollSleep", "validitySleep"}
Listeners == SleepListeners \cup {"staticTimeout"}

NewAbortController ==
  [aborted |-> FALSE, abortCalls |-> 0, listeners |-> {},
   invoked |-> [l \in Listeners |-> 0]]

\* controller.abort(): the first call sets the flag and calls every registered
\* listener; onAbort of a delay removes itself (transactions/utils.ts:34-40),
\* the static policy's listener stays registered (timeouts/static.ts:24-27).
abort(c) ==
  IF c.aborted THEN [c EXCEPT !.abortCalls = @ + 1]
  ELSE [aborted |-> TRUE,
        abortCalls |-> c.abortCalls + 1,
        listeners |-> c.listeners \ SleepListeners,
        invoked |-> [l \in Listeners |->
                       IF l \in c.listeners THEN c.invoked[l] + 1 ELSE c.invoked[l]]]

tryInvokeAbortUnguarded(c) == abort(c)

\* tryInvokeAbort, transactions/utils.ts:55-59
tryInvokeAbort(c) == IF ~c.aborted THEN abort(c) ELSE c

ListenerLeftRegistered(c, l) == c

addEventListener(c, l) == [c EXCEPT !.listeners = @ \cup {l}]
removeEventListener(c, l) == [c EXCEPT !.listeners = @ \ {l}]


(***************************************************************************)
(* State.                                                                  *)
(***************************************************************************)
VARIABLES
  signedTransaction,    \* argument: the signed transaction
  config,               \* argument: the configuration
  onTransactionEvent,   \* argument: "supplied" or "omitted"
  orch,                 \* position of sendAndConfirmTransaction
  outcome,              \* what the caller received
  transactionId,        \* the derived identifier (<<>> before)
  controller,           \* the shared AbortController
  transactionProcessed, \* transactionProcessedController.signal.aborted
  task,                 \* position of the send, poll and validity loops
  timer,                \* the static policy's setTimeout
  subscription,         \* the onSignature subscription
  watcher,              \* the promise of awaitTransactionSignatureConfirmation
  rpc,                  \* calls started, per Connection method
  inflight,             \* sendRawTransaction promises not yet settled
  events,               \* phases of the lifecycle events delivered, per category
  unhandledRejections,  \* rejected promises nobody handles
  seen,                 \* what the collaborator has reported so far
  process,              \* the host process: "running" or "terminated"
  evaluation            \* a function applied on its own: arguments and result

vars ==
  <<signedTransaction, config, onTransactionEvent, orch, outcome, transactionId,
    controller, transactionProcessed, task, timer, subscription, watcher, rpc,
    inflight, events, unhandledRejections, seen, process, evaluation>>

Undefined == -1

NoEvents == [send |-> <<>>, confirm |-> <<>>, simulate |-> <<>>]

NoOutcome == [kind |-> "pending", transactionId |-> <<>>, instruction |-> "none"]

NoEvaluation == [fn |-> "none"]

Init ==
  /\ evaluation = NoEvaluation
  /\ signedTransaction \in SignedTransactions
  /\ config \in Configs
  /\ onTransactionEvent \in {"supplied", "omitted"}
  /\ orch = "idle"
  /\ outcome = NoOutcome
  /\ transactionId = <<>>
  /\ controller = NewAbortController
  /\ transactionProcessed = FALSE
  /\ task = [send |-> "unstarted", poll |-> "unstarted", validity |-> "unstarted"]
  /\ timer = "unset"
  /\ subscription = [state |-> "none", id |-> Undefined]
  /\ watcher = [state |-> "unstarted", value |-> NoValue, settleCalls |-> 0]
  /\ rpc = [sendRawTransaction |-> 0, onSignature |-> 0, removeSignatureListener |-> 0,
            getSignatureStatuses |-> 0, isBlockhashValid |-> 0, simulateTransaction |-> 0]
  /\ inflight = 0
  /\ events = NoEvents
  /\ unhandledRejections = 0
  /\ seen = [terminal |-> FALSE, pushSatisfied |-> FALSE, validityFalse |-> "none",
             timeoutSignals |-> 0, late |-> 0, simulation |-> "none",
             first |-> "none"]
  /\ process = "running"

(***************************************************************************)
(* Helpers shared by the actions.                                          *)
(***************************************************************************)
\* What the host does with a rejected promise that nobody handles: it reports
\* it (browsers; Node.js with an 'unhandledRejection' handler), or it raises
\* it as an uncaught exception, which ends the process (Node.js by default).
UnhandledRejectionReactions == {"report", "terminate"}

\* the process has not been ended: timers and network callbacks still run
ProcessRunning == process = "running"

\* A continuation of a settled promise is queued: it runs before any timer
\* or network callback.
MicrotaskPending ==
  \/ orch = "sent"
  \/ orch = "confirming" /\ watcher.state \in {"resolved", "rejected"}
  \/ \E t \in DOMAIN task : task[t] \in {"woken", "ready"}

EmitNothing(log, type, phases) == log

\* onTransactionEvent?.(event), part_001:82-86, 106-110: the callback receives
\* events of one category, with the given phases, in this order
Emit(log, type, phases) ==
  IF onTransactionEvent = "supplied" THEN [log EXCEPT ![type] = @ \o phases] ELSE log

ListenerOf(t) ==
  CASE t = "send" -> "sendSleep"
    [] t = "poll" -> "pollSleep"
    [] t = "validity" -> "validitySleep"

SleepersStayAsleep(before, after, tk) == tk

\* The abort event reaching the listeners: onAbort of every pending delay
\* clears its timer and resolves it (transactions/utils.ts:34-40).
WakeSleepers(before, after, tk) ==
  [t \in DOMAIN tk |->
     IF /\ ~before.aborted /\ after.aborted
        /\ tk[t] = "sleeping" /\ ListenerOf(t) \in before.listeners
       THEN "woken" ELSE tk[t]]

TimerLeftArmed(before, after, tm) == tm

\* ... and the static policy's listener clears its timer (timeouts/static.ts:24-27).
ClearStaticTimeout(before, after, tm) ==
  IF /\ ~before.aborted /\ after.aborted
     /\ "staticTimeout" \in before.listeners /\ tm = "armed"
    THEN "cleared" ELSE tm

settleIgnored(w, how, value) == w

\* resolve(value) / reject(reason) of the watcher's promise: the first call
\* settles it, every later call changes nothing.
settle(w, how, value) ==
  IF w.state = "pending"
    THEN [state |-> how, value |-> value, settleCalls |-> w.settleCalls + 1]
    ELSE [w EXCEPT !.settleCalls = @ + 1]

TimeoutSignal == [kind |-> "timeout", index |-> -1]

\* cleanupSubscription, confirm.ts:26-35: the removeSignatureListener calls it makes
cleanupSubscription(subscriptionId) ==
  IF subscriptionId # Undefined /\ subscriptionId # 0 THEN 1 ELSE 0

\* abortableSleep / sleepWithController, transactions/utils.ts:18-53, at the end
\* of a loop iteration of task t: returns at once when the token has fired
\* (and the loop condition then ends the loop), else registers onAbort and a timer.
SleepOrExit(c, t) == IF c.aborted THEN "done" ELSE "sleeping"
SleepListener(c, t) == IF c.aborted THEN c ELSE addEventListener(c, ListenerOf(t))


(***************************************************************************)
(* The resubmission loop, part_001:66-119.                                 *)
(***************************************************************************)
\* the loop condition, part_001:78-81
ResendIgnoresToken(c) == ~transactionProcessed

ResendIgnoresProcessed(c) == ~c.aborted

ResendNeverStarts(c) == FALSE

ResendContinues(c) == ~transactionProcessed /\ ~c.aborted

\* One iteration, from the loop condition to the next suspension point, with
\* c the controller as the step has left it so far.
ResendIteration(c) ==
  IF ResendContinues(c)
    THEN /\ events' = Emit(events, "send", <<"pending", "completed">>)
         /\ rpc' = [rpc EXCEPT !.sendRawTransaction = @ + 1]
         /\ inflight' = inflight + 1
         /\ IF config.continuouslySendTransactions
              THEN /\ task' = [task EXCEPT !.send = SleepOrExit(c, "send")]
                   /\ controller' = SleepListener(c, "send")
              ELSE /\ task' = [task EXCEPT !.send = "done"]
                   /\ controller' = c
    ELSE /\ task' = [task EXCEPT !.send = "done"]
         /\ controller' = c
         /\ UNCHANGED <<events, rpc, inflight>>

(***************************************************************************)
(* sendAndConfirmTransaction is called: sendSignedTransaction runs up to   *)
(* its return (part_001:47-121, called at utils.ts:94-104).                *)
(***************************************************************************)
Call ==
  /\ ProcessRunning
  /\ orch = "idle"
  /\ IF serializeThrows(signedTransaction)
       THEN /\ orch' = "rejected"
            /\ outcome' = [NoOutcome EXCEPT !.kind = "SignatureError"]
            /\ UNCHANGED <<transactionId, controller, task, rpc, inflight, events>>
     ELSE IF getTransactionSignatureOrThrow(signedTransaction).threw
       THEN /\ orch' = "rejected"
            /\ outcome' = [NoOutcome EXCEPT !.kind = "Error"]
            /\ UNCHANGED <<transactionId, controller, task, rpc, inflight, events>>
     ELSE /\ transactionId' = getTransactionSignatureOrThrow(signedTransaction).id
          /\ ResendIteration(controller)
          /\ orch' = "sent"
          /\ UNCHANGED outcome
  /\ UNCHANGED <<evaluation, process, signedTransaction, config, onTransactionEvent, transactionProcessed,
                 timer, subscription, watcher, unhandledRejections, seen>>

\* The delay of the resubmission loop expires: the next iteration.
SendWake ==
  /\ ProcessRunning
  /\ ~MicrotaskPending
  /\ task.send = "sleeping"
  /\ rpc.sendRawTransaction < MaxSends
  /\ ResendIteration(removeEventListener(controller, "sendSleep"))
  /\ UNCHANGED <<evaluation, process, signedTransaction, config, onTransactionEvent, orch, outcome,
                 transactionId, transactionProcessed, timer, subscription, watcher,
                 unhandledRejections, seen>>

\* The delay was ended by the abort event: the loop condition is evaluated again.
SendResume ==
  /\ ProcessRunning
  /\ task.send = "woken"
  /\ ResendIteration(controller)
  /\ UNCHANGED <<evaluation, process, signedTransaction, config, onTransactionEvent, orch, outcome,
                 transactionId, transactionProcessed, timer, subscription, watcher,
                 unhandledRejections, seen>>

\* A sendRawTransaction promise settles; the .catch handler of part_001:96-104.
SendResponse(answer) ==
  /\ ProcessRunning
  /\ ~MicrotaskPending
  /\ inflight > 0
  /\ inflight' = inflight - 1
  /\ transactionProcessed' = (transactionProcessed \/ answer = "alreadyProcessed")
  /\ unhandledRejections' = unhandledRejections + (IF answer = "otherError" THEN 1 ELSE 0)
  /\ \E reaction \in UnhandledRejectionReactions :
       process' = IF answer = "otherError" /\ reaction = "terminate"
                    THEN "terminated" ELSE process
  /\ UNCHANGED <<evaluation, signedTransaction, config, onTransactionEvent, orch, outcome,
                 transactionId, controller, task, timer, subscription, watcher, rpc,
                 events, seen>>


(***************************************************************************)
(* Timeout policies, armed by the watcher (confirm.ts:106-115).            *)
(***************************************************************************)
\* applyStaticTimeout, timeouts/static.ts:12-28: setTimeout and the abort listener
StaticTimeoutArmed(c) == addEventListener(c, "staticTimeout")

\* applyTransactionExpiration, utils.ts:234-269, up to its first await: the loop
\* condition and the first isBlockhashValid call
ValidityLoopEnters(c) == ~c.aborted

PushNeverResolves(subscriptionCommitment, requiredLevels) == FALSE

\* the push callback's choice on a notification without error, confirm.ts:140-178
PushResolves(subscriptionCommitment, requiredLevels) ==
  LET isValidConfirmationValue ==
        subscriptionCommitment \in TRANSACTION_CONFIRMATION_VALUES
  IN  \/ ~isValidConfirmationValue
      \/ /\ isValidConfirmationValue
         /\ areConfirmationLevelsSatisfied(requiredLevels, subscriptionCommitment)

(***************************************************************************)
(* The orchestrator continues after sendSignedTransaction returned         *)
(* (utils.ts:106-126): the "none" branch, or the watcher up to its first   *)
(* suspension point (confirm.ts:90-192).  answer is what                   *)
(* connection.onSignature does: it returns a handle or throws.             *)
(***************************************************************************)
AfterSend(answer) ==
  /\ ProcessRunning
  /\ orch = "sent"
  /\ IF config.type = "none"
       THEN /\ controller' = abort(controller)
            /\ task' = WakeSleepers(controller, abort(controller), task)
            /\ orch' = "returned"
            /\ outcome' = [NoOutcome EXCEPT !.kind = "identifier",
                                            !.transactionId = transactionId]
            /\ UNCHANGED <<timer, subscription, watcher, rpc, events>>
     ELSE IF onTransactionEvent = "omitted"
       THEN \* onTransactionEvent(...) at confirm.ts:99 throws a TypeError
            /\ watcher' = [state |-> "rejected",
                           value |-> [kind |-> "TypeError", index |-> -1],
                           settleCalls |-> 0]
            /\ orch' = "confirming"
            /\ UNCHANGED <<controller, task, timer, subscription, rpc, events, outcome>>
     ELSE LET armed == IF config.type = "static"
                         THEN StaticTimeoutArmed(controller) ELSE controller
              polling == config.type = "expiration" /\ ValidityLoopEnters(armed)
              after == IF answer.threw THEN tryInvokeAbort(armed) ELSE armed
          IN  /\ events' = Emit(events, "confirm", <<"pending">>)
              /\ controller' = after
              /\ timer' = ClearStaticTimeout(armed, after,
                            IF config.type = "static" THEN "armed" ELSE timer)
              /\ task' = [WakeSleepers(armed, after, task) EXCEPT
                            !.validity = IF polling THEN "calling"
                                         ELSE IF config.type = "expiration"
                                           THEN "done" ELSE @]
              /\ rpc' = [rpc EXCEPT
                           !.onSignature = @ + 1,
                           !.isBlockhashValid = @ + (IF polling THEN 1 ELSE 0),
                           !.removeSignatureListener =
                              @ + (IF answer.threw
                                     THEN cleanupSubscription(Undefined) ELSE 0)]
              /\ subscription' = IF answer.threw
                                   THEN [state |-> "failed", id |-> Undefined]
                                   ELSE [state |-> "active", id |-> answer.id]
              /\ watcher' = [watcher EXCEPT !.state = "pending"]
              /\ orch' = "confirming"
              /\ UNCHANGED outcome
  /\ UNCHANGED <<evaluation, process, signedTransaction, config, onTransactionEvent, transactionId,
                 transactionProcessed, inflight, unhandledRejections, seen>>

\* bookkeeping: the kind of the first terminal event ("timeout", "error",
\* "satisfied") that reached the call
FirstTerminal(kind) == IF seen.first = "none" THEN kind ELSE seen.first

\* Whether a status meets the requirement, by rank ("recent" is the old name
\* of "processed").
MeetsRequirement(level, requiredLevels) ==
  LET rank == IF level = "recent" THEN 1 ELSE TransactionConfirmationStatusEnum(level)
  IN  \A r \in requiredLevels : rank >= TransactionConfirmationStatusEnum(r)

(***************************************************************************)
(* A push notification arrives: the callback of confirm.ts:123-180.  err   *)
(* is the on-chain error it reports, or NoValue.                           *)
(***************************************************************************)
Notify(err) ==
  /\ ProcessRunning
  /\ ~MicrotaskPending
  /\ subscription.state = "active"
  /\ subscription' = [subscription EXCEPT !.state = "notified"]
  /\ rpc' = [rpc EXCEPT !.removeSignatureListener = @ + cleanupSubscription(subscription.id)]
  /\ LET commitment == config.initialConfirmationCommitment
         required == config.requiredConfirmationLevels
         terminal == err # NoValue \/ PushResolves(commitment, required)
         after == IF terminal THEN tryInvokeAbort(controller) ELSE controller
     IN  /\ controller' = after
         /\ timer' = ClearStaticTimeout(controller, after, timer)
         /\ IF err # NoValue
              THEN /\ events' = Emit(events, "confirm", <<"completed">>)
                   /\ watcher' = settle(watcher, "rejected", err)
                   /\ task' = WakeSleepers(controller, after, task)
              ELSE IF PushResolves(commitment, required)
                THEN /\ events' = Emit(events, "confirm", <<"completed">>)
                     /\ watcher' = settle(watcher, "resolved",
                                          [kind |-> "notification", index |-> -1])
                     /\ task' = WakeSleepers(controller, after, task)
                ELSE /\ events' = Emit(events, "confirm", <<"pending">>)
                     /\ watcher' = watcher
                     /\ task' = [task EXCEPT !.poll = "ready"]
         /\ seen' = [seen EXCEPT
                       !.terminal = @ \/ err # NoValue \/ MeetsRequirement(commitment, required),
                       !.pushSatisfied = @ \/ (/\ err = NoValue
                                               /\ watcher.state = "pending"
                                               /\ MeetsRequirement(commitment, required)),
                       !.late = IF watcher.state # "pending" THEN 1 ELSE @,
                       !.first = IF err # NoValue THEN FirstTerminal("error")
                                 ELSE IF MeetsRequirement(commitment, required)
                                   THEN FirstTerminal("satisfied") ELSE @]
  /\ UNCHANGED <<evaluation, process, signedTransaction, config, onTransactionEvent, orch, outcome,
                 transactionId, transactionProcessed, inflight, unhandledRejections>>


(***************************************************************************)
(* Status polling, confirm.ts:194-269.                                     *)
(***************************************************************************)
\* what getSignatureStatuses can answer for the identifier: value[0]
SignatureStatuses ==
  {[kind |-> "status", err |-> e, confirmations |-> 0,
    confirmationStatus |-> "processed"] :
      e \in TransactionErrors}
    \cup
  {[kind |-> "status", err |-> NoValue, confirmations |-> 0,
    confirmationStatus |-> "undefined"],
   [kind |-> "status", err |-> NoValue, confirmations |-> 1,
    confirmationStatus |-> "undefined"]}
    \cup
  {[kind |-> "status", err |-> NoValue, confirmations |-> 0,
    confirmationStatus |-> l] :
      l \in TRANSACTION_CONFIRMATION_VALUES}

PollAnswers == {[kind |-> "rejects"], [kind |-> "null"]} \cup SignatureStatuses

PollAlwaysWaits(result, requiredLevels) == "none"

\* what one poll result makes the watcher do, confirm.ts:203-258
PollVerdict(result, requiredLevels) ==
  IF result.kind = "null" THEN "none"
  ELSE IF result.err # NoValue THEN "reject"
  ELSE IF ~(result.confirmations # 0 \/ result.confirmationStatus # "undefined")
    THEN "none"
  ELSE IF ~areConfirmationLevelsSatisfied(requiredLevels, result.confirmationStatus)
    THEN "active"
  ELSE "resolve"

\* The inner promise was resolved by the push callback: the polling loop starts.
PollStart ==
  /\ ProcessRunning
  /\ task.poll = "ready"
  /\ IF controller.aborted
       THEN /\ task' = [task EXCEPT !.poll = "done"]
            /\ UNCHANGED rpc
       ELSE /\ task' = [task EXCEPT !.poll = "calling"]
            /\ rpc' = [rpc EXCEPT !.getSignatureStatuses = @ + 1]
  /\ UNCHANGED <<evaluation, process, signedTransaction, config, onTransactionEvent, orch, outcome,
                 transactionId, controller, transactionProcessed, timer, subscription,
                 watcher, inflight, events, unhandledRejections, seen>>

PollResultNeverDiscarded(c) == FALSE

\* the test on the signal after the call returned, confirm.ts:204
PollResultDiscarded(c) == c.aborted

\* A getSignatureStatuses call settles; the rest of the iteration.
PollResponse(answer) ==
  /\ ProcessRunning
  /\ ~MicrotaskPending
  /\ task.poll = "calling"
  /\ LET verdict == IF answer.kind = "rejects" \/ PollResultDiscarded(controller)
                      THEN "none"
                    ELSE PollVerdict(answer, config.requiredConfirmationLevels)
         after == IF answer.kind = "rejects" \/ verdict \in {"reject", "resolve"}
                    THEN tryInvokeAbort(controller) ELSE controller
     IN  /\ controller' = SleepListener(after, "poll")
         /\ timer' = ClearStaticTimeout(controller, after, timer)
         /\ task' = [WakeSleepers(controller, after, task) EXCEPT
                       !.poll = SleepOrExit(after, "poll")]
         /\ events' = CASE verdict \in {"reject", "resolve"} ->
                             Emit(events, "confirm", <<"completed">>)
                        [] verdict = "active" ->
                             Emit(events, "confirm", <<"active">>)
                        [] OTHER -> events
         /\ watcher' = CASE verdict = "reject" -> settle(watcher, "rejected", answer.err)
                         [] verdict = "resolve" ->
                              settle(watcher, "resolved",
                                     [kind |-> answer.confirmationStatus, index |-> -1])
                         [] OTHER -> watcher
         /\ seen' = [seen EXCEPT
                       !.terminal = @ \/ (answer.kind = "status" /\
                          (\/ answer.err # NoValue
                           \/ /\ answer.confirmationStatus # "undefined"
                              /\ MeetsRequirement(answer.confirmationStatus,
                                                  config.requiredConfirmationLevels))),
                       !.late = IF watcher.state # "pending" THEN 1 ELSE @,
                       !.first =
                          IF answer.kind # "status" THEN @
                          ELSE IF answer.err # NoValue THEN FirstTerminal("error")
                          ELSE IF /\ answer.confirmationStatus # "undefined"
                                  /\ MeetsRequirement(answer.confirmationStatus,
                                                      config.requiredConfirmationLevels)
                            THEN FirstTerminal("satisfied") ELSE @]
  /\ UNCHANGED <<evaluation, process, signedTransaction, config, onTransactionEvent, orch, outcome,
                 transactionId, transactionProcessed, subscription, rpc, inflight,
                 unhandledRejections>>

\* The delay of the polling loop expires: the loop condition, then the next call.
PollWake ==
  /\ ProcessRunning
  /\ ~MicrotaskPending
  /\ task.poll = "sleeping"
  /\ rpc.getSignatureStatuses < MaxPolls
  /\ controller' = removeEventListener(controller, "pollSleep")
  /\ IF controller.aborted
       THEN /\ task' = [task EXCEPT !.poll = "done"]
            /\ UNCHANGED rpc
       ELSE /\ task' = [task EXCEPT !.poll = "calling"]
            /\ rpc' = [rpc EXCEPT !.getSignatureStatuses = @ + 1]
  /\ UNCHANGED <<evaluation, process, signedTransaction, config, onTransactionEvent, orch, outcome,
                 transactionId, transactionProcessed, timer, subscription, watcher,
                 inflight, events, unhandledRejections, seen>>

\* The delay was ended by the abort event: the loop condition is evaluated again.
PollResume ==
  /\ ProcessRunning
  /\ task.poll = "woken"
  /\ IF controller.aborted
       THEN /\ task' = [task EXCEPT !.poll = "done"]
            /\ UNCHANGED rpc
       ELSE /\ task' = [task EXCEPT !.poll = "calling"]
            /\ rpc' = [rpc EXCEPT !.getSignatureStatuses = @ + 1]
  /\ UNCHANGED <<evaluation, process, signedTransaction, config, onTransactionEvent, orch, outcome,
                 transactionId, controller, transactionProcessed, timer, subscription,
                 watcher, inflight, events, unhandledRejections, seen>>


(***************************************************************************)
(* The static policy's timer fires: the callback of timeouts/static.ts:    *)
(* 17-22.                                                                  *)
(***************************************************************************)
StaticTimeoutSkips(c) == c.aborted

TimerFire ==
  /\ ProcessRunning
  /\ ~MicrotaskPending
  /\ timer = "armed"
  /\ timer' = "fired"
  /\ IF StaticTimeoutSkips(controller)
       THEN UNCHANGED <<controller, task, watcher, seen>>
       ELSE /\ controller' = abort(controller)
            /\ task' = WakeSleepers(controller, abort(controller), task)
            /\ watcher' = settle(watcher, "rejected", TimeoutSignal)
            /\ seen' = [seen EXCEPT !.timeoutSignals = @ + 1,
                                    !.first = FirstTerminal("timeout")]
  /\ UNCHANGED <<evaluation, process, signedTransaction, config, onTransactionEvent, orch, outcome,
                 transactionId, transactionProcessed, subscription, rpc, inflight,
                 events, unhandledRejections>>

(***************************************************************************)
(* The expiration policy, applyTransactionExpiration, utils.ts:234-269.    *)
(***************************************************************************)
ValidityAnswers == {"valid", "invalid", "rejects"}

\* the guard before the policy fires the token, utils.ts:261
ExpirationNeverSkips(c) == FALSE

ExpirationSkips(c) == c.aborted

\* bookkeeping: the first false answer, and whether a terminal status had been
\* reported before it
FirstFalse ==
  IF seen.validityFalse # "none" THEN seen.validityFalse
  ELSE IF seen.terminal THEN "afterTerminal" ELSE "first"

\* An isBlockhashValid call settles; the rest of the iteration.
ValidityResponse(answer) ==
  /\ ProcessRunning
  /\ ~MicrotaskPending
  /\ task.validity = "calling"
  /\ CASE answer = "rejects" ->
            \* the policy's promise rejects and nobody awaits it
            /\ task' = [task EXCEPT !.validity = "crashed"]
            /\ unhandledRejections' = unhandledRejections + 1
            /\ \E reaction \in UnhandledRejectionReactions :
                 process' = IF reaction = "terminate" THEN "terminated" ELSE process
            /\ UNCHANGED <<controller, timer, watcher, seen>>
       [] answer = "invalid" ->
            /\ unhandledRejections' = unhandledRejections
            /\ IF ExpirationSkips(controller)
                 THEN /\ task' = [task EXCEPT !.validity = "done"]
                      /\ seen' = [seen EXCEPT !.validityFalse = FirstFalse]
                      /\ UNCHANGED <<controller, timer, watcher, process>>
                 ELSE /\ controller' = abort(controller)
                      /\ timer' = ClearStaticTimeout(controller, abort(controller), timer)
                      /\ task' = [WakeSleepers(controller, abort(controller), task)
                                    EXCEPT !.validity = "done"]
                      /\ watcher' = settle(watcher, "rejected", TimeoutSignal)
                      /\ seen' = [seen EXCEPT !.validityFalse = FirstFalse,
                                              !.timeoutSignals = @ + 1,
                                              !.first = FirstTerminal("timeout")]
                      /\ UNCHANGED process
       [] answer = "valid" ->
            /\ unhandledRejections' = unhandledRejections
            /\ controller' = SleepListener(controller, "validity")
            /\ task' = [task EXCEPT !.validity = SleepOrExit(controller, "validity")]
            /\ UNCHANGED <<timer, watcher, seen, process>>
  /\ UNCHANGED <<evaluation, signedTransaction, config, onTransactionEvent, orch, outcome,
                 transactionId, transactionProcessed, subscription, rpc, inflight,
                 events>>

\* The delay of the validity loop expires: the loop condition, then the next call.
ValidityWake ==
  /\ ProcessRunning
  /\ ~MicrotaskPending
  /\ task.validity = "sleeping"
  /\ rpc.isBlockhashValid < MaxValidityPolls
  /\ controller' = removeEventListener(controller, "validitySleep")
  /\ IF controller.aborted
       THEN /\ task' = [task EXCEPT !.validity = "done"]
            /\ UNCHANGED rpc
       ELSE /\ task' = [task EXCEPT !.validity = "calling"]
            /\ rpc' = [rpc EXCEPT !.isBlockhashValid = @ + 1]
  /\ UNCHANGED <<evaluation, process, signedTransaction, config, onTransactionEvent, orch, outcome,
                 transactionId, transactionProcessed, timer, subscription, watcher,
                 inflight, events, unhandledRejections, seen>>

\* The delay was ended by the abort event: the loop condition is evaluated again.
ValidityResume ==
  /\ ProcessRunning
  /\ task.validity = "woken"
  /\ IF controller.aborted
       THEN /\ task' = [task EXCEPT !.validity = "done"]
            /\ UNCHANGED rpc
       ELSE /\ task' = [task EXCEPT !.validity = "calling"]
            /\ rpc' = [rpc EXCEPT !.isBlockhashValid = @ + 1]
  /\ UNCHANGED <<evaluation, process, signedTransaction, config, onTransactionEvent, orch, outcome,
                 transactionId, controller, transactionProcessed, timer, subscription,
                 watcher, inflight, events, unhandledRejections, seen>>


(***************************************************************************)
(* Errors raised to the caller.                                            *)
(***************************************************************************)
\* new ConfirmationTimeoutError({transactionId, message, config}), utils.ts:137-141
ConfirmationTimeoutError(id) ==
  [kind |-> "ConfirmationTimeoutError", transactionId |-> id, instruction |-> "none"]

\* new TransactionError({message, transactionId}), utils.ts:156-159: it is given
\* neither the error payload nor the transaction
TransactionError(id) ==
  [kind |-> "TransactionError", transactionId |-> id, instruction |-> "none"]

\* class InstructionError: the instruction the payload [ixKey, errorName] points at
InstructionError(id, error) ==
  [kind |-> "InstructionError", transactionId |-> id,
   instruction |-> Instructions[error.index + 1]]

\* simulateTransaction (./simulate): best-effort; its own failure is reported as
\* an event and never escalated
SimulateFailureEscalates(answer) == answer = "failed"

simulateTransactionThrows(answer) == FALSE

(***************************************************************************)
(* The watcher's promise has settled: the try/catch/finally of             *)
(* utils.ts:115-171.                                                       *)
(***************************************************************************)
AfterWatcher ==
  /\ ProcessRunning
  /\ orch = "confirming"
  /\ watcher.state \in {"resolved", "rejected"}
  /\ IF watcher.state = "resolved"
       THEN /\ controller' = tryInvokeAbort(controller)
            /\ orch' = "returned"
            /\ outcome' = [NoOutcome EXCEPT !.kind = "identifier",
                                            !.transactionId = transactionId]
            /\ UNCHANGED rpc
     ELSE IF watcher.value.kind = "timeout"
       THEN /\ controller' = tryInvokeAbort(tryInvokeAbort(controller))
            /\ orch' = "rejected"
            /\ outcome' = ConfirmationTimeoutError(transactionId)
            /\ UNCHANGED rpc
     ELSE /\ rpc' = [rpc EXCEPT !.simulateTransaction = @ + 1]
          /\ orch' = "simulating"
          /\ UNCHANGED <<controller, outcome>>
  /\ task' = WakeSleepers(controller, controller', task)
  /\ timer' = ClearStaticTimeout(controller, controller', timer)
  /\ UNCHANGED <<evaluation, process, signedTransaction, config, onTransactionEvent, transactionId,
                 transactionProcessed, subscription, watcher, inflight, events,
                 unhandledRejections, seen>>

\* simulateTransaction has finished: utils.ts:153-162.
SimulateDone(answer) ==
  /\ ProcessRunning
  /\ ~MicrotaskPending
  /\ orch = "simulating"
  /\ orch' = "rejected"
  /\ outcome' = IF simulateTransactionThrows(answer)
                  THEN [NoOutcome EXCEPT !.kind = "Error"]
                  ELSE TransactionError(transactionId)
  /\ controller' = tryInvokeAbort(controller)
  /\ task' = WakeSleepers(controller, controller', task)
  /\ timer' = ClearStaticTimeout(controller, controller', timer)
  /\ events' = Emit(events, "simulate", <<"completed">>)
  /\ seen' = [seen EXCEPT !.simulation = answer]
  /\ UNCHANGED <<evaluation, process, signedTransaction, config, onTransactionEvent, transactionId,
                 transactionProcessed, subscription, watcher, rpc, inflight,
                 unhandledRejections>>

(***************************************************************************)
(* The specification.                                                      *)
(***************************************************************************)
Next ==
  \/ Call
  \/ \E answer \in OnSignatureAnswers : AfterSend(answer)
  \/ SendWake
  \/ SendResume
  \/ \E answer \in {"ok", "alreadyProcessed", "otherError"} : SendResponse(answer)
  \/ \E err \in TransactionErrors \cup {NoValue} : Notify(err)
  \/ PollStart
  \/ \E answer \in PollAnswers : PollResponse(answer)
  \/ PollWake
  \/ PollResume
  \/ TimerFire
  \/ \E answer \in ValidityAnswers : ValidityResponse(answer)
  \/ ValidityWake
  \/ ValidityResume
  \/ AfterWatcher
  \/ \E answer \in {"ok", "failed"} : SimulateDone(answer)

Spec == Init /\ [][Next]_vars

(***************************************************************************)
(* areConfirmationLevelsSatisfied applied on its own, to every array of    *)
(* required levels up to MaxRequiredLevels and every observed status.      *)
(***************************************************************************)
RECURSIVE SeqsUpTo(_, _)
SeqsUpTo(S, n) ==
  IF n = 0 THEN {<<>>}
  ELSE SeqsUpTo(S, n - 1) \cup
       {Append(q, x) : q \in {r \in SeqsUpTo(S, n - 1) : Len(r) = n - 1}, x \in S}

\* requiredStatuses.map(...) spread into Math.max: the elements of the array
ElementsOf(q) == {q[i] : i \in DOMAIN q}

LevelInputs ==
  [fn : {"areConfirmationLevelsSatisfied"},
   requiredStatuses : SeqsUpTo(TRANSACTION_CONFIRMATION_VALUES, MaxRequiredLevels),
   currentStatus : TRANSACTION_CONFIRMATION_VALUES \cup {"undefined"},
   result : {"pending"}]

\* the program itself is not called
ProgramIdle ==
  /\ signedTransaction = [kind |-> "legacy", signatures |-> <<LegacySignature>>]
  /\ config = [type |-> "none", continuouslySendTransactions |-> FALSE,
               initialConfirmationCommitment |-> "confirmed",
               requiredConfirmationLevels |-> {"confirmed"}]
  /\ onTransactionEvent = "omitted"
  /\ orch = "idle"
  /\ outcome = NoOutcome
  /\ transactionId = <<>>
  /\ controller = NewAbortController
  /\ transactionProcessed = FALSE
  /\ task = [send |-> "unstarted", poll |-> "unstarted", validity |-> "unstarted"]
  /\ timer = "unset"
  /\ subscription = [state |-> "none", id |-> Undefined]
  /\ watcher = [state |-> "unstarted", value |-> NoValue, settleCalls |-> 0]
  /\ rpc = [sendRawTransaction |-> 0, onSignature |-> 0, removeSignatureListener |-> 0,
            getSignatureStatuses |-> 0, isBlockhashValid |-> 0, simulateTransaction |-> 0]
  /\ inflight = 0
  /\ events = NoEvents
  /\ unhandledRejections = 0
  /\ seen = [terminal |-> FALSE, pushSatisfied |-> FALSE, validityFalse |-> "none",
             timeoutSignals |-> 0, late |-> 0, simulation |-> "none",
             first |-> "none"]
  /\ process = "running"

programVars ==
  <<signedTransaction, config, onTransactionEvent, orch, outcome, transactionId,
    controller, transactionProcessed, task, timer, subscription, watcher, rpc,
    inflight, events, unhandledRejections, seen, process>>

InitLevels == evaluation \in LevelInputs /\ ProgramIdle

\* the call areConfirmationLevelsSatisfied(requiredStatuses, currentStatus)
EvaluateLevels ==
  /\ evaluation.fn = "areConfirmationLevelsSatisfied"
  /\ evaluation.result = "pending"
  /\ evaluation' =
       [evaluation EXCEPT !.result =
          IF areConfirmationLevelsSatisfied(ElementsOf(evaluation.requiredStatuses),
                                            evaluation.currentStatus)
            THEN "true" ELSE "false"]
  /\ UNCHANGED programVars

NextLevels == EvaluateLevels

SpecLevels == InitLevels /\ [][NextLevels]_vars

(***************************************************************************)
(* abortableSleep(ms, controller) on its own, transactions/utils.ts:18-53, *)
(* against a clock.  token: whether the token has fired; hasController:    *)
(* whether the controller was passed; timer: the delay's setTimeout;       *)
(* listener: whether onAbort is registered; resolved: how often the        *)
(* promise's resolve ran; resolvedAt: when the promise resolved.           *)
(***************************************************************************)
SleepInputs ==
  [fn : {"abortableSleep"}, ms : 1..MaxMs, hasController : BOOLEAN,
   token : BOOLEAN, firedAt : {-1}, now : {0}, pc : {"start"},
   timer : {"none"}, listener : {FALSE}, resolved : {0}, resolvedAt : {-1}]

InitSleep == evaluation \in SleepInputs /\ ProgramIdle

\* the call: sleep(ms) without a controller, else sleepWithController
SleepCall ==
  /\ evaluation.fn = "abortableSleep" /\ evaluation.pc = "start"
  /\ evaluation' =
       IF ~evaluation.hasController
         THEN [evaluation EXCEPT !.pc = "waiting", !.timer = "armed"]
       ELSE IF evaluation.token
         THEN [evaluation EXCEPT !.pc = "waiting", !.resolved = 1,
                                 !.resolvedAt = evaluation.now]
       ELSE [evaluation EXCEPT !.pc = "waiting", !.timer = "armed",
                               !.listener = TRUE]
  /\ UNCHANGED programVars

\* time passes; an armed timer fires at its expiry, not later
SleepTick ==
  /\ evaluation.fn = "abortableSleep" /\ evaluation.pc = "waiting"
  /\ evaluation.now <= MaxMs
  /\ ~(evaluation.timer = "armed" /\ evaluation.now = evaluation.ms)
  /\ evaluation' = [evaluation EXCEPT !.now = @ + 1]
  /\ UNCHANGED programVars

\* the timer's callback: removeEventListener and resolve
SleepExpire ==
  /\ evaluation.fn = "abortableSleep" /\ evaluation.timer = "armed"
  /\ evaluation.now = evaluation.ms
  /\ evaluation' =
       [evaluation EXCEPT
          !.timer = "fired", !.listener = FALSE, !.resolved = @ + 1,
          !.resolvedAt = IF evaluation.resolved = 0 THEN evaluation.now ELSE @]
  /\ UNCHANGED programVars

TimerKeptOnAbort(t) == t

\* clearTimeout(timeoutId) in onAbort, transactions/utils.ts:37
TimerClearedOnAbort(t) == "cleared"

\* the token fires; onAbort, when registered: clearTimeout, removeEventListener
\* and resolve
SleepAbort ==
  /\ evaluation.fn = "abortableSleep" /\ evaluation.pc = "waiting"
  /\ ~evaluation.token
  /\ evaluation' =
       IF evaluation.listener
         THEN [evaluation EXCEPT
                 !.token = TRUE, !.firedAt = evaluation.now,
                 !.timer = TimerClearedOnAbort(@), !.listener = FALSE,
                 !.resolved = @ + 1,
                 !.resolvedAt = IF evaluation.resolved = 0 THEN evaluation.now ELSE @]
         ELSE [evaluation EXCEPT !.token = TRUE, !.firedAt = evaluation.now]
  /\ UNCHANGED programVars

NextSleep == SleepCall \/ SleepTick \/ SleepExpire \/ SleepAbort

SpecSleep == InitSleep /\ [][NextSleep]_vars


(***************************************************************************)
(* Claims.                                                                 *)
(***************************************************************************)
\* the call has derived the identifier and has not settled yet
CallPending == orch \in {"sent", "confirming", "simulating"}

\* the call has settled after deriving the identifier
CallSettled == orch \in {"returned", "rejected"} /\ transactionId # <<>>

\* C1: a call with a static timeout configuration that has derived the
\* identifier eventually settles, whatever the RPC collaborator does: it is
\* never left pending in a state from which no step is possible (no timer
\* armed, no delay pending, no RPC call in flight, no subscription left).
C1_StaticCallSettles ==
  (config.type = "static" /\ CallPending) => ENABLED Next


\* C2: whenever the call has settled after deriving the identifier the shared
\* controller is aborted, and abort() has been performed on it exactly once;
\* at no time has it been performed more than once.
C2_AbortedExactlyOnce ==
  /\ controller.abortCalls <= 1
  /\ CallSettled => (controller.aborted /\ controller.abortCalls = 1)

\* C2 witness: a call rejected with a Transaction-Failure error after an
\* on-chain error, the path with the most abort attempts.
C2_Witness ==
  /\ CallSettled
  /\ outcome.kind = "TransactionError"
  /\ watcher.value \in TransactionErrors
  /\ controller.abortCalls = 1

\* C3: under a static configuration, a call that settles while neither the
\* push subscription nor polling has reported a terminal status was rejected
\* with ConfirmationTimeoutError carrying the identifier, by the timer firing.
C3_StaticTimeoutOnly ==
  (config.type = "static" /\ CallSettled /\ ~seen.terminal)
    => (outcome = ConfirmationTimeoutError(transactionId) /\ timer = "fired")

\* C4: with type "none" no subscription, status poll, validity poll or timeout
\* policy is ever started; once the identifier is derived exactly one
\* sendRawTransaction call has been started and none is started later, and
\* the call returns the identifier with the token fired.
C4_NonePolicy ==
  config.type = "none" =>
    /\ rpc.onSignature = 0 /\ rpc.getSignatureStatuses = 0 /\ rpc.isBlockhashValid = 0
    /\ timer = "unset" /\ "staticTimeout" \notin controller.listeners
    /\ watcher.state = "unstarted"
    /\ transactionId # <<>> => rpc.sendRawTransaction = 1
    /\ CallSettled => /\ orch = "returned"
                      /\ outcome.kind = "identifier"
                      /\ outcome.transactionId = transactionId
                      /\ controller.aborted

\* C4 witness: a "none" call with continuous sending has returned and its
\* resubmission loop, woken by the abort, has ended.
C4_Witness ==
  /\ config.type = "none" /\ config.continuouslySendTransactions
  /\ orch = "returned" /\ task.send = "done"
  /\ controller.invoked["sendSleep"] = 1

\* C5: the step in which a successful push notification that satisfies the
\* required levels reaches the pending watcher resolves the watcher and fires
\* the token, and from then on no getSignatureStatuses call is started.
C5_PushWinsRace ==
  [][/\ (~seen.pushSatisfied /\ seen'.pushSatisfied)
          => (watcher'.state = "resolved" /\ controller'.aborted)
     /\ seen.pushSatisfied
          => rpc'.getSignatureStatuses = rpc.getSignatureStatuses]_vars

\* C5 witness: such a notification has resolved the watcher.
C5_Witness ==
  /\ seen.pushSatisfied
  /\ watcher.state = "resolved"
  /\ watcher.value.kind = "notification"

\* C6: once the watcher has settled its outcome never changes, and a push
\* notification or poll result arriving afterwards performs no abort and
\* leaves no rejection unhandled.
LateResult ==
  \/ \E err \in TransactionErrors \cup {NoValue} : Notify(err)
  \/ \E answer \in PollAnswers : PollResponse(answer)

C6_IdempotentSettle ==
  [][watcher.state \in {"resolved", "rejected"} =>
       /\ watcher'.state = watcher.state
       /\ watcher'.value = watcher.value
       /\ LateResult => /\ controller'.abortCalls = controller.abortCalls
                        /\ unhandledRejections' = unhandledRejections
                        /\ orch' = orch /\ outcome' = outcome]_vars

\* C6 witness: a notification or poll result arrived after the watcher settled.
C6_Witness ==
  /\ seen.late = 1
  /\ watcher.state \in {"resolved", "rejected"}
  /\ watcher.settleCalls >= 2

\* C7: a transaction with no signature or with an empty first signature slot
\* makes the call fail with SignatureError, with no broadcast started, no
\* lifecycle event emitted and the resubmission loop not started.
C7_SignatureErrorFirst ==
  (/\ orch # "idle"
   /\ \/ Len(signedTransaction.signatures) = 0
      \/ signedTransaction.signatures[1] = NullSignature)
    => /\ orch = "rejected"
       /\ outcome.kind = "SignatureError"
       /\ rpc.sendRawTransaction = 0
       /\ events = NoEvents
       /\ task.send = "unstarted"


\* C8: the token is one-shot and monotone: once aborted the controller never
\* changes again (a further trigger through tryInvokeAbort performs no
\* abort()), no listener is ever invoked twice, and the step that fires the
\* token invokes every listener registered at that moment exactly once:
\* every pending delay is ended and the static policy's timer is cleared.
C8_TokenOneShot ==
  [][/\ controller.aborted => controller' = controller
     /\ \A l \in Listeners : controller'.invoked[l] <= 1
     /\ (~controller.aborted /\ controller'.aborted) =>
          /\ controller'.abortCalls = 1
          /\ \A l \in controller.listeners : controller'.invoked[l] = 1
          /\ \A t \in DOMAIN task : task[t] = "sleeping" => task'[t] = "woken"
          /\ timer = "armed" => timer' \in {"cleared", "fired"}]_vars

\* C8 witness: the token was fired while a delay listener and the static
\* policy's listener were registered, and was then triggered again.
C8_Witness ==
  /\ controller.aborted
  /\ controller.invoked["sendSleep"] = 1
  /\ controller.invoked["staticTimeout"] = 1
  /\ CallSettled

\* C9: under the expiration policy the timeout signal is raised on the first
\* isBlockhashValid answer that is false when no terminal confirmation has been
\* observed, and never before a false answer: the policy then has fired the
\* token and raised the signal exactly once, and the call, once settled, was
\* rejected with ConfirmationTimeoutError; once the token has fired no
\* further isBlockhashValid call is started.
C9_ExpirationTimeout ==
  [][config.type = "expiration" =>
       /\ controller.aborted => rpc'.isBlockhashValid = rpc.isBlockhashValid
       /\ seen'.validityFalse = "none" => seen'.timeoutSignals = 0
       /\ seen'.validityFalse = "first" =>
            /\ seen'.timeoutSignals = 1
            /\ controller'.aborted
            /\ watcher'.state = "rejected" /\ watcher'.value = TimeoutSignal
            /\ CallSettled' => outcome' = ConfirmationTimeoutError(transactionId')]_vars

\* C10: when the watcher rejected with InstructionError [i, name] and the
\* transaction has more than i instructions, the error the caller receives is
\* a Transaction-Failure error referencing the instruction at position i.
C10_FailingInstruction ==
  (/\ CallSettled
   /\ watcher.state = "rejected"
   /\ watcher.value.kind = "InstructionError"
   /\ watcher.value.index < Len(Instructions))
    => /\ outcome.kind \in {"TransactionError", "InstructionError"}
       /\ outcome.transactionId = transactionId
       /\ outcome.instruction = InstructionError(transactionId, watcher.value).instruction

\* C11: when the watcher rejected with an on-chain error the caller receives
\* a Transaction-Failure error carrying the derived identifier, whether the
\* re-simulation succeeded or failed: a failed simulation is never what the
\* caller receives.
C11_SimulationNeverMasks ==
  (CallSettled /\ watcher.state = "rejected" /\ watcher.value \in TransactionErrors)
    => /\ seen.simulation \in {"ok", "failed"}
       /\ outcome.kind = "TransactionError"
       /\ outcome.transactionId = transactionId

\* C11 witness: the call settled after an on-chain error and a failed
\* re-simulation.
C11_Witness ==
  /\ CallSettled
  /\ watcher.state = "rejected" /\ watcher.value \in TransactionErrors
  /\ seen.simulation = "failed"
  /\ outcome = TransactionError(transactionId)

\* C12: the kind of outcome is decided by the first terminal event: a call
\* that waited for confirmation and settled was rejected with
\* ConfirmationTimeoutError exactly when the timeout policy fired first, with
\* a Transaction-Failure error exactly when an on-chain error was reported
\* first, and returned the identifier exactly when a satisfying status was
\* reported first.
C12_FirstTerminalEventDecides ==
  (CallSettled /\ config.type # "none") =>
    /\ outcome.kind = "ConfirmationTimeoutError" <=> seen.first = "timeout"
    /\ outcome.kind = "TransactionError" <=> seen.first = "error"
    /\ outcome.kind = "identifier" <=> seen.first = "satisfied"

\* C13: lifecycle events are observational only: what the call does is the
\* same whether the callback is supplied or omitted.  With a callback
\* supplied the step that enters the watcher always starts the onSignature
\* subscription and leaves the watcher's promise pending, so every such step
\* does, whatever the callback argument.
C13_EventsObservationalOnly ==
  [][(orch = "sent" /\ orch' = "confirming") =>
       /\ rpc'.onSignature = rpc.onSignature + 1
       /\ watcher'.state = "pending"]_vars

\* C14: status polling does not wait for a push notification: while the
\* watcher is pending with the token unfired and the subscription has
\* delivered nothing yet, the polling loop has started (a
\* getSignatureStatuses call has been made), so that a satisfying status can
\* resolve the watcher without any push notification.
C14_PollingIndependentOfPush ==
  (/\ watcher.state = "pending" /\ ~controller.aborted
   /\ subscription.state = "active")
    => (task.poll # "unstarted" /\ rpc.getSignatureStatuses >= 1)

\* C15: within the watcher the token fires only together with a terminal
\* outcome: every step of a call waiting for confirmation that fires the
\* token leaves the watcher's promise resolved or rejected.  In particular
\* onSignature throwing or getSignatureStatuses rejecting does not fire it.
C15_TokenFiresWithOutcome ==
  [][(config.type # "none" /\ ~controller.aborted /\ controller'.aborted)
       => watcher'.state \in {"resolved", "rejected"}]_vars

\* C16: once the token has fired, for whatever reason, the signature
\* subscription the watcher set up has been removed: removeSignatureListener
\* was called for the handle onSignature returned.
C16_SubscriptionRemoved ==
  (config.type # "none" /\ controller.aborted /\ subscription.id # Undefined)
    => rpc.removeSignatureListener >= 1

\* C17: once the token has fired no sendRawTransaction and no
\* getSignatureStatuses call is started; a resubmission or polling loop that
\* is sleeping when the token fires is woken in that very step, and a woken
\* loop exits without another iteration.
C17_LoopsStopOnAbort ==
  [][/\ controller.aborted =>
          /\ rpc'.sendRawTransaction = rpc.sendRawTransaction
          /\ rpc'.getSignatureStatuses = rpc.getSignatureStatuses
     /\ (~controller.aborted /\ controller'.aborted) =>
          \A t \in {"send", "poll"} : task[t] = "sleeping" => task'[t] = "woken"
     /\ \A t \in {"send", "poll"} :
          (task[t] = "woken" /\ task'[t] # "woken") => task'[t] = "done"]_vars

\* C17 witness: the token fired while both loops were sleeping, and both
\* have exited.
C17_Witness ==
  /\ controller.aborted
  /\ controller.invoked["sendSleep"] = 1 /\ controller.invoked["pollSleep"] = 1
  /\ task.send = "done" /\ task.poll = "done"

\* C18: a push notification without error that reaches the pending watcher
\* resolves it only if the subscription's commitment is one of processed,
\* confirmed, finalized and its rank is at least the highest required rank;
\* for every other commitment the watcher stays pending and the polling loop
\* takes over.
C18_PushResolvesOnlyAtRank ==
  [][(Notify(NoValue) /\ watcher.state = "pending") =>
       LET commitment == config.initialConfirmationCommitment
           atRank == /\ commitment \in TRANSACTION_CONFIRMATION_VALUES
                     /\ areConfirmationLevelsSatisfied(
                          config.requiredConfirmationLevels, commitment)
       IN  ~atRank => (watcher'.state = "pending" /\ task'.poll = "ready")]_vars

\* C19: a push notification that reports an on-chain error and reaches the
\* pending watcher makes it reject with exactly that error and fires the
\* token, at any subscription commitment and for any required levels.
C19_PushErrorRejects ==
  [][\A err \in TransactionErrors :
       (Notify(err) /\ watcher.state = "pending") =>
         /\ watcher'.state = "rejected" /\ watcher'.value = err
         /\ controller'.aborted]_vars

\* C19 witness: the watcher was rejected by a push notification carrying an
\* InstructionError at a commitment that alone would not satisfy the
\* required levels.
C19_Witness ==
  /\ subscription.state = "notified"
  /\ watcher.state = "rejected" /\ watcher.value.kind = "InstructionError"
  /\ config.initialConfirmationCommitment = "processed"
  /\ config.requiredConfirmationLevels = {"processed", "finalized"}
  /\ rpc.getSignatureStatuses = 0
  /\ controller.aborted

\* C20: a poll result that arrives while the token is unfired has exactly one
\* of four effects.  No status: nothing changes and polling continues.  A
\* status with an error: the watcher rejects with that error and the token
\* fires.  A status that satisfies the required levels: the watcher resolves
\* with it and the token fires.  A status below the required levels: a
\* "confirm"/"active" event is emitted, the token stays unfired and polling
\* continues.
C20_PollOutcomes ==
  [][\A answer \in PollAnswers \ {[kind |-> "rejects"]} :
       (PollResponse(answer) /\ ~controller.aborted) =>
         LET required == config.requiredConfirmationLevels
             continues == /\ ~controller'.aborted
                          /\ watcher' = watcher
                          /\ task'.poll = "sleeping"
         IN  IF \/ answer.kind = "null"
                \/ /\ answer.err = NoValue /\ answer.confirmations = 0
                   /\ answer.confirmationStatus = "undefined"
               THEN continues /\ events' = events
             ELSE IF answer.err # NoValue
               THEN /\ watcher'.state = "rejected" /\ watcher'.value = answer.err
                    /\ controller'.aborted
             ELSE IF /\ answer.confirmationStatus # "undefined"
                     /\ MeetsRequirement(answer.confirmationStatus, required)
               THEN /\ watcher'.state = "resolved"
                    /\ watcher'.value.kind = answer.confirmationStatus
                    /\ controller'.aborted
             ELSE /\ continues
                  /\ events'.confirm = Append(events.confirm, "active")]_vars

\* C20 witness: a first poll reported a status below the required levels, a
\* second one a satisfying status, which resolved the watcher.
C20_Witness ==
  /\ rpc.getSignatureStatuses = 2
  /\ \E i \in DOMAIN events.confirm : events.confirm[i] = "active"
  /\ watcher.state = "resolved" /\ watcher.value.kind = "finalized"
  /\ controller.aborted

\* C21: a getSignatureStatuses call that completes after the token has fired
\* is discarded, whatever its result: it emits no lifecycle event, does not
\* settle the watcher, and the polling loop ends without another call.
C21_LatePollDiscarded ==
  [][\A answer \in PollAnswers :
       (PollResponse(answer) /\ controller.aborted) =>
         /\ events' = events
         /\ watcher'.state = watcher.state /\ watcher'.value = watcher.value
         /\ controller'.abortCalls = controller.abortCalls
         /\ rpc' = rpc
         /\ task'.poll = "done"]_vars

\* C21 witness: a poll started before the token fired, its result arrived
\* after the watcher had settled, and the loop has ended.
C21_Witness ==
  /\ seen.late = 1
  /\ rpc.getSignatureStatuses >= 1
  /\ task.poll = "done"
  /\ watcher.state \in {"resolved", "rejected"}

\* C22: static policy.  When the timer expires with the token unfired the
\* policy fires the token and raises {timeout: true} on the watcher's
\* promise; when the token fires for another reason while the timer is armed
\* the timer is cleared in that step, and a cleared timer never fires nor
\* raises the signal; in every run the signal is raised at most once.
C22_StaticPolicy ==
  [][config.type = "static" =>
       /\ (timer = "armed" /\ timer' = "fired" /\ ~controller.aborted) =>
            /\ controller'.aborted
            /\ seen'.timeoutSignals = seen.timeoutSignals + 1
            /\ watcher.state = "pending" =>
                 (watcher'.state = "rejected" /\ watcher'.value = TimeoutSignal)
       /\ (timer = "armed" /\ timer' # "fired" /\ controller'.aborted) =>
            (timer' = "cleared" /\ seen'.timeoutSignals = seen.timeoutSignals)
       /\ timer = "cleared" =>
            (timer' = "cleared" /\ seen'.timeoutSignals = seen.timeoutSignals)
       /\ seen'.timeoutSignals <= 1]_vars

\* C22 witness: the timer fired with the token unfired and the call was
\* rejected with the timeout error.
C22_Witness ==
  /\ config.type = "static" /\ timer = "fired"
  /\ seen.timeoutSignals = 1
  /\ outcome = ConfirmationTimeoutError(transactionId)

\* C23: a sendRawTransaction call that rejects with a message other than
\* "already processed" neither stops the resubmission loop nor changes the
\* outcome: the loop, the token, the watcher and the call are as they were,
\* and the process goes on running them.
C23_SendFailureHarmless ==
  [][SendResponse("otherError") =>
       /\ task' = task /\ transactionProcessed' = transactionProcessed
       /\ controller' = controller /\ watcher' = watcher
       /\ orch' = orch /\ outcome' = outcome
       /\ process' = "running"]_vars

\* C24: once a sendRawTransaction call was rejected as "already processed"
\* the resubmission loop starts no new broadcast; the rejection itself does
\* not fire the shared token, settles nothing and fails nothing: token,
\* watcher and call are as they were.
C24_AlreadyProcessedStopsResend ==
  [][/\ transactionProcessed =>
          /\ transactionProcessed'
          /\ rpc'.sendRawTransaction = rpc.sendRawTransaction
     /\ SendResponse("alreadyProcessed") =>
          /\ transactionProcessed'
          /\ controller' = controller /\ watcher' = watcher
          /\ orch' = orch /\ outcome' = outcome
          /\ unhandledRejections' = unhandledRejections
          /\ process' = process]_vars

\* C24 witness: with continuous sending the loop has ended after an "already
\* processed" answer while the token is unfired and the watcher still waits.
C24_Witness ==
  /\ transactionProcessed /\ config.continuouslySendTransactions
  /\ task.send = "done"
  /\ ~controller.aborted /\ watcher.state = "pending"

\* the "send" events a supplied callback receives for n iterations
RECURSIVE SendEventsOf(_)
SendEventsOf(n) ==
  IF n = 0 THEN <<>> ELSE SendEventsOf(n - 1) \o <<"pending", "completed">>

\* what C25 says of every iteration and of the loop without continuous send
ResendIterationShape ==
  /\ rpc'.sendRawTransaction <= rpc.sendRawTransaction + 1
  /\ (rpc'.sendRawTransaction > rpc.sendRawTransaction /\ rpc.sendRawTransaction >= 1)
       => (task.send = "sleeping" /\ ~controller.aborted)
  /\ onTransactionEvent' = "supplied"
       => events'.send = SendEventsOf(rpc'.sendRawTransaction)
  /\ ~config'.continuouslySendTransactions =>
       /\ rpc'.sendRawTransaction <= 1
       /\ transactionId' # <<>> =>
            (rpc'.sendRawTransaction = 1 /\ task'.send = "done")

\* C25 as stated: every iteration of the resubmission loop emits
\* "send"/"pending", starts one sendRawTransaction call and emits
\* "send"/"completed"; without continuous send there is exactly one
\* iteration; with it every further iteration follows one interruptible
\* wait, and the loop repeats until the token fires.
C25_ResendUntilTokenFires ==
  [][/\ ResendIterationShape
     /\ (config'.continuouslySendTransactions /\ task'.send = "done")
          => controller'.aborted]_vars

\* C25, amended: as above, but the loop repeats until the token fires or a
\* broadcast was rejected as "already processed".
C25_ResendIterations ==
  [][/\ ResendIterationShape
     /\ (config'.continuouslySendTransactions /\ task'.send = "done")
          => (controller'.aborted \/ transactionProcessed')]_vars

\* C25 witness: two iterations of a continuous loop, ended by the token.
C25_Witness ==
  /\ config.continuouslySendTransactions /\ onTransactionEvent = "supplied"
  /\ rpc.sendRawTransaction = 2
  /\ events.send = <<"pending", "completed", "pending", "completed">>
  /\ task.send = "done" /\ controller.aborted /\ ~transactionProcessed

\* C26: sendSignedTransaction returns the identifier while its first
\* broadcast is still unanswered, and nothing of the watcher (subscription,
\* "confirm" event, timeout policy) is started before the first
\* sendRawTransaction call has been started.
C26_WatcherAfterFirstSend ==
  /\ orch = "sent" =>
       /\ transactionId # <<>>
       /\ rpc.sendRawTransaction = 1 /\ inflight = 1
  /\ (\/ watcher.state # "unstarted" \/ rpc.onSignature > 0
      \/ rpc.isBlockhashValid > 0 \/ timer # "unset"
      \/ events.confirm # <<>>)
       => rpc.sendRawTransaction >= 1

\* C26 witness: the watcher is waiting while the first broadcast is still
\* unanswered.
C26_Witness ==
  /\ orch = "confirming" /\ watcher.state = "pending"
  /\ rpc.onSignature = 1 /\ events.confirm = <<"pending">>
  /\ rpc.sendRawTransaction = 1 /\ inflight = 1

\* C27: areConfirmationLevelsSatisfied(required, observed), for every
\* non-empty array of required levels, returns true exactly when observed is
\* defined and its rank is at least the rank of every required level (so at
\* least the highest); it returns false when observed is undefined.
C27_LevelsSatisfied ==
  (/\ evaluation.fn = "areConfirmationLevelsSatisfied"
   /\ evaluation.result # "pending"
   /\ evaluation.requiredStatuses # <<>>)
    => LET required == evaluation.requiredStatuses
           observed == evaluation.currentStatus
           expected ==
             /\ observed # "undefined"
             /\ \A i \in DOMAIN required :
                  TransactionConfirmationStatusEnum(observed)
                    >= TransactionConfirmationStatusEnum(required[i])
       IN  evaluation.result = (IF expected THEN "true" ELSE "false")

\* C27 witness: "confirmed" observed against ["processed", "confirmed"].
C27_Witness ==
  /\ evaluation.fn = "areConfirmationLevelsSatisfied"
  /\ evaluation.requiredStatuses = <<"processed", "confirmed">>
  /\ evaluation.currentStatus = "confirmed"
  /\ evaluation.result = "true"

\* C28: abortableSleep(ms, controller) resolves exactly once, at the
\* earliest of: at the call when the token has already fired (no timer is
\* created), when the token fires while it waits (the timer is cleared), or
\* when ms have passed; without a controller it resolves when ms have
\* passed and not before.
C28_AbortableSleep ==
  evaluation.fn = "abortableSleep" =>
    LET e == evaluation
        firedAtCall == e.hasController /\ e.token /\ e.firedAt = -1
        firedSince == e.hasController /\ e.firedAt # -1
    IN  /\ e.resolved <= 1
        /\ (e.pc = "waiting" /\ firedAtCall) =>
             (e.resolved = 1 /\ e.resolvedAt = 0 /\ e.timer = "none")
        /\ (e.resolved = 1 /\ ~firedAtCall) =>
             /\ e.resolvedAt = IF firedSince /\ e.firedAt < e.ms
                                THEN e.firedAt ELSE e.ms
             /\ e.timer \in {"cleared", "fired"}
             /\ e.timer = "cleared" => (firedSince /\ e.resolvedAt = e.firedAt)
             /\ (firedSince /\ e.firedAt < e.ms) => e.timer = "cleared"
        /\ (e.resolved = 0 /\ e.pc = "waiting") =>
             (e.now <= e.ms /\ ~firedSince /\ e.timer = "armed")
        /\ ~e.hasController => (e.resolved = 1 <=> e.timer = "fired")

\* C28 witness: a delay of 3 ended by the token after 1.
C28_Witness ==
  /\ evaluation.fn = "abortableSleep"
  /\ evaluation.ms = 3 /\ evaluation.hasController
  /\ evaluation.resolved = 1 /\ evaluation.resolvedAt = 1
  /\ evaluation.timer = "cleared" /\ evaluation.now = 3

\* C29: under the expiration policy an isBlockhashValid call that rejects
\* while the token is unfired does not disable the policy: the validity loop
\* goes on to its next delay and poll, so that a later false answer still
\* raises the timeout.
C29_ValidityLoopSurvivesRpcError ==
  [][(ValidityResponse("rejects") /\ ~controller.aborted) =>
       /\ task'.validity = "sleeping"
       /\ process' = "running"]_vars

\* C30: once the watcher has resolved or rejected, by whatever cause, no
\* "confirm" lifecycle event is emitted any more: a push notification that
\* arrives later emits nothing.
C30_NoConfirmEventAfterSettle ==
  [][watcher.state \in {"resolved", "rejected"}
       => events'.confirm = events.confirm]_vars

\* C31: whatever a sendRawTransaction call is rejected with ("already
\* processed" or any other broadcast error), the rejection is handled: the
\* step that delivers it adds no unhandled rejection.
C31_SendRejectionHandled ==
  [][\A answer \in {"ok", "alreadyProcessed", "otherError"} :
       SendResponse(answer) => unhandledRejections' = unhandledRejections]_vars

(***************************************************************************)
(* sendSignedTransaction called on its own, part_001:31-121, where the     *)
(* caller chooses config.continuouslySendTransactions and may leave        *)
(* config.controller out.  returned: how the promise handed to the caller  *)
(* settled; loop: the detached async function of part_001:66-119; token:   *)
(* whether config.controller has fired; processed:                         *)
(* transactionProcessedController; unhandled: rejected promises without a  *)
(* handler; process: whether the host still runs.                          *)
(***************************************************************************)
SendInputs ==
  [fn : {"sendSignedTransaction"}, signedTransaction : SignedTransactions,
   continuouslySendTransactions : {"undefined", "true", "false"},
   hasController : BOOLEAN, token : BOOLEAN, pc : {"start"},
   returned : {"pending"}, loop : {"unstarted"}, sendRawTransaction : {0},
   inflight : {0}, processed : {FALSE}, unhandled : {0}, process : {"running"}]

InitSend ==
  /\ evaluation \in {e \in SendInputs : e.token => e.hasController}
  /\ ProgramIdle

\* config.continuouslySendTransactions ?? false, part_001:69-70
ContinuouslySend(e) == e.continuouslySendTransactions = "true"

\* the loop condition, part_001:78-81; without a controller
\* config.controller?.signal.aborted is undefined
DetachedLoopContinues(e) == ~e.processed /\ ~(e.hasController /\ e.token)

\* one iteration of the loop, part_001:82-117, up to the break or the await
DetachedIteration(e) ==
  IF DetachedLoopContinues(e)
    THEN [e EXCEPT !.sendRawTransaction = @ + 1, !.inflight = @ + 1,
                   !.loop = IF ContinuouslySend(e) THEN "sleeping" ELSE "done"]
    ELSE [e EXCEPT !.loop = "done"]

\* the detached async function from its start to its first suspension,
\* part_001:66-117; a throw in it rejects the promise the function returns,
\* which nobody holds
DetachedStart(e) ==
  IF ContinuouslySend(e) /\ ~e.hasController
    THEN [e EXCEPT !.loop = "threw", !.unhandled = @ + 1]
    ELSE DetachedIteration(e)

\* the call, up to its return: serialize, the identifier, the detached
\* function, return transactionId (part_001:47-121)
SendSignedCall ==
  /\ evaluation.fn = "sendSignedTransaction" /\ evaluation.pc = "start"
  /\ \E reaction \in UnhandledRejectionReactions :
       LET e == evaluation
           started == DetachedStart(e)
       IN  evaluation' =
             IF serializeThrows(e.signedTransaction)
               THEN [e EXCEPT !.pc = "returned", !.returned = "SignatureError"]
             ELSE IF getTransactionSignatureOrThrow(e.signedTransaction).threw
               THEN [e EXCEPT !.pc = "returned", !.returned = "Error"]
             ELSE [started EXCEPT
                     !.pc = "returned", !.returned = "transactionId",
                     !.process = IF started.unhandled > 0 /\ reaction = "terminate"
                                   THEN "terminated" ELSE @]
  /\ UNCHANGED programVars

\* the delay of part_001:116 expires: the next iteration
DetachedWake ==
  /\ evaluation.fn = "sendSignedTransaction" /\ evaluation.process = "running"
  /\ evaluation.loop = "sleeping"
  /\ evaluation.sendRawTransaction < MaxSends
  /\ evaluation' = DetachedIteration(evaluation)
  /\ UNCHANGED programVars

\* the caller fires config.controller: a pending delay resolves and the loop
\* condition ends the loop
CallerAborts ==
  /\ evaluation.fn = "sendSignedTransaction" /\ evaluation.process = "running"
  /\ evaluation.pc = "returned"
  /\ evaluation.hasController /\ ~evaluation.token
  /\ evaluation' =
       [evaluation EXCEPT !.token = TRUE,
                          !.loop = IF @ = "sleeping" THEN "done" ELSE @]
  /\ UNCHANGED programVars

\* a sendRawTransaction promise settles; the .catch handler of part_001:94-104
DetachedSendResponse(answer) ==
  /\ evaluation.fn = "sendSignedTransaction" /\ evaluation.process = "running"
  /\ evaluation.inflight > 0
  /\ \E reaction \in UnhandledRejectionReactions :
       evaluation' =
         [evaluation EXCEPT
            !.inflight = @ - 1,
            !.processed = @ \/ answer = "alreadyProcessed",
            !.unhandled = @ + (IF answer = "otherError" THEN 1 ELSE 0),
            !.process = IF answer = "otherError" /\ reaction = "terminate"
                          THEN "terminated" ELSE @]
  /\ UNCHANGED programVars

NextSend ==
  \/ SendSignedCall
  \/ DetachedWake
  \/ CallerAborts
  \/ \E answer \in {"ok", "alreadyProcessed", "otherError"} :
       DetachedSendResponse(answer)

SpecSend == InitSend /\ [][NextSend]_vars

\* C32: sendSignedTransaction called with continuouslySendTransactions = true
\* and no controller starts no broadcast, and the promise it returned is
\* rejected with the error "AbortController is required ...": the caller gets
\* no identifier.
C32_MissingControllerFailsCall ==
  (/\ evaluation.fn = "sendSignedTransaction"
   /\ evaluation.pc = "returned"
   /\ ~serializeThrows(evaluation.signedTransaction)
   /\ ~getTransactionSignatureOrThrow(evaluation.signedTransaction).threw
   /\ ContinuouslySend(evaluation)
   /\ ~evaluation.hasController)
    => /\ evaluation.sendRawTransaction = 0
       /\ evaluation.returned = "Error"

\* C33: on a push notification cleanupSubscription calls
\* removeSignatureListener for the handle onSignature returned, whatever the
\* handle is, the handle 0 included.
C33_CleanupRemovesEveryHandle ==
  [][\A err \in TransactionErrors \cup {NoValue} :
       (Notify(err) /\ subscription.id \in SubscriptionIds)
         => rpc'.removeSignatureListener = rpc.removeSignatureListener + 1]_vars

(***************************************************************************)
(* TransactionBuilder, part_001:146-343, as an object of its own.  The     *)
(* builder's fields are kept in one record; built is what the last build() *)
(* call gave (a transaction, or the error it failed with) and              *)
(* getLatestBlockhash counts the calls made on the connection.             *)
(***************************************************************************)
MaxInstructions == 3
MaxBuilds == 2

\* instructions the caller supplies
UserInstructions == {"a", "b"}

\* lists the caller passes to prependInstructions / appendInstructions
InstructionLists == SeqsUpTo(UserInstructions, 2) \ {<<>>}

NoBudgetConfig == [type |-> "undefined", value |-> 0]

\* ConstantComputeUnitLimit / DynamicComputeUnitLimit (without calculateLimit),
\* instructions/compute.ts:8-16
ComputeUnitLimitConfigs ==
  {[type |-> "constant", value |-> 0], [type |-> "constant", value |-> 200],
   [type |-> "dynamic", value |-> 0]}

\* ConstantPrioritizationFee / DynamicPrioritizationFee, instructions/fee.ts:13-21
PrioritizationFeeConfigs ==
  {[type |-> "constant", value |-> 5], [type |-> "dynamic", value |-> 0]}

NothingBuilt ==
  [kind |-> "none", instructions |-> <<>>, recentBlockhash |-> "undefined",
   message |-> ""]

\* the field initialisers, part_001:147-161
NewTransactionBuilder ==
  [fn |-> "TransactionBuilder", connection |-> FALSE, instructions |-> <<>>,
   recentBlockhash |-> "undefined", feePayer |-> FALSE, useVersionedTx |-> FALSE,
   priorityFeeConfig |-> NoBudgetConfig, computeUnitLimitConfig |-> NoBudgetConfig,
   builds |-> 0, getLatestBlockhash |-> 0, built |-> NothingBuilt]

InitBuilder == evaluation = NewTransactionBuilder /\ ProgramIdle

\* this.instructions.unshift(instruction), part_001:186-191
prependInstruction(b, instruction) ==
  [b EXCEPT !.instructions = <<instruction>> \o @]

\* instructions.forEach(prependInstruction), part_001:193-200
RECURSIVE prependInstructions(_, _)
prependInstructions(b, instructions) ==
  IF instructions = <<>> THEN b
  ELSE prependInstructions(prependInstruction(b, Head(instructions)),
                           Tail(instructions))

\* this.instructions.push(instruction), part_001:202-205
appendInstruction(b, instruction) ==
  [b EXCEPT !.instructions = Append(@, instruction)]

\* instructions.forEach(appendInstruction), part_001:207-214
RECURSIVE appendInstructions(_, _)
appendInstructions(b, instructions) ==
  IF instructions = <<>> THEN b
  ELSE appendInstructions(appendInstruction(b, Head(instructions)),
                          Tail(instructions))

\* getConnectionOrThrow, part_001:231-240: this.connection ?? connection
getConnectionOrThrow(b, connection) == b.connection \/ connection

\* deriveComputeLimit, instructions/compute.ts:29-41; getStaticallyTrackedLimits
\* returns -1
deriveComputeLimit(limitConfig) ==
  IF limitConfig.type = "constant" THEN limitConfig.value ELSE -1

\* generateComputeLimitInstruction, instructions/compute.ts:51-59: no
\* instruction for a limit of 0
generateComputeLimitInstruction(limitConfig) ==
  IF deriveComputeLimit(limitConfig) = 0 THEN <<>> ELSE <<"setComputeUnitLimit">>

\* generatePrioritizationFeeInstruction, instructions/fee.ts:172-180
generatePrioritizationFeeInstruction(feeConfig) == <<"setComputeUnitPrice">>

\* resolveComputeBudgetInstructions, part_001:242-270: the builder as it
\* leaves it, and whether getConnectionOrThrow threw
resolveComputeBudgetInstructions(b, connection) ==
  LET needsConnection == \/ b.computeUnitLimitConfig # NoBudgetConfig
                         \/ b.priorityFeeConfig # NoBudgetConfig
      withLimit ==
        IF b.computeUnitLimitConfig # NoBudgetConfig
          THEN prependInstructions(b, generateComputeLimitInstruction(b.computeUnitLimitConfig))
          ELSE b
      withFee ==
        IF b.priorityFeeConfig # NoBudgetConfig
          THEN prependInstructions(withLimit,
                 generatePrioritizationFeeInstruction(b.priorityFeeConfig))
          ELSE withLimit
  IN  IF needsConnection /\ ~getConnectionOrThrow(b, connection)
        THEN [threw |-> TRUE, builder |-> b]
        ELSE [threw |-> FALSE, builder |-> withFee]

ConnectionError ==
  [NothingBuilt EXCEPT !.kind = "Error",
     !.message = "Either set recentBlockhash field manually or provide a connection instance"]

\* buildTransaction, part_001:272-299; Transaction.add of no instruction
\* throws "No instructions"
buildTransaction(b, connection) ==
  LET resolved == resolveComputeBudgetInstructions(b, connection)
      r == resolved.builder
      fetches == r.recentBlockhash = "undefined"
  IN  IF resolved.threw THEN [r EXCEPT !.built = ConnectionError]
      ELSE IF r.instructions = <<>>
        THEN [r EXCEPT !.built = [NothingBuilt EXCEPT !.kind = "Error",
                                                      !.message = "No instructions"]]
      ELSE IF fetches /\ ~getConnectionOrThrow(r, connection)
        THEN [r EXCEPT !.built = ConnectionError]
      ELSE [r EXCEPT
              !.getLatestBlockhash = IF fetches THEN @ + 1 ELSE @,
              !.built = [kind |-> "legacy", instructions |-> r.instructions,
                         recentBlockhash |-> IF fetches THEN "latest" ELSE "undefined",
                         message |-> ""]]

\* buildVersionedTransaction, part_001:301-332
buildVersionedTransaction(b, connection, feePayer) ==
  LET resolved == resolveComputeBudgetInstructions(b, connection)
      r == resolved.builder
  IN  IF ~(b.feePayer \/ feePayer)
        THEN [b EXCEPT !.built =
                [NothingBuilt EXCEPT !.kind = "Error",
                   !.message = "Versioned Transaction cannot be built with missing fee payer"]]
      ELSE IF resolved.threw \/ ~getConnectionOrThrow(r, connection)
        THEN [r EXCEPT !.built = ConnectionError]
      ELSE [r EXCEPT
              !.getLatestBlockhash = @ + 1,
              !.built = [kind |-> "versioned", instructions |-> r.instructions,
                         recentBlockhash |-> "latest", message |-> ""]]

\* build, part_001:334-343
build(b, connection, feePayer) ==
  IF b.useVersionedTx THEN buildVersionedTransaction(b, connection, feePayer)
  ELSE buildTransaction(b, connection)

BuilderLive == evaluation.fn = "TransactionBuilder"

\* how many caller-supplied instructions the list holds
UserCount(b) ==
  Cardinality({i \in DOMAIN b.instructions : b.instructions[i] \in UserInstructions})

UseVersionedTransaction(useVersioned) ==
  /\ BuilderLive
  /\ evaluation' = [evaluation EXCEPT !.useVersionedTx = useVersioned]
  /\ UNCHANGED programVars

SetConnection ==
  /\ BuilderLive
  /\ evaluation' = [evaluation EXCEPT !.connection = TRUE]
  /\ UNCHANGED programVars

SetPriorityFeeConfig(feeConfig) ==
  /\ BuilderLive
  /\ evaluation' = [evaluation EXCEPT !.priorityFeeConfig = feeConfig]
  /\ UNCHANGED programVars

SetComputeUnitLimitConfig(limitConfig) ==
  /\ BuilderLive
  /\ evaluation' = [evaluation EXCEPT !.computeUnitLimitConfig = limitConfig]
  /\ UNCHANGED programVars

PrependInstructions(instructions) ==
  /\ BuilderLive
  /\ UserCount(evaluation) + Len(instructions) <= MaxInstructions
  /\ evaluation' = prependInstructions(evaluation, instructions)
  /\ UNCHANGED programVars

AppendInstructions(instructions) ==
  /\ BuilderLive
  /\ UserCount(evaluation) + Len(instructions) <= MaxInstructions
  /\ evaluation' = appendInstructions(evaluation, instructions)
  /\ UNCHANGED programVars

SetRecentBlockhash(blockhash) ==
  /\ BuilderLive
  /\ evaluation' = [evaluation EXCEPT !.recentBlockhash = blockhash]
  /\ UNCHANGED programVars

SetFeePayer ==
  /\ BuilderLive
  /\ evaluation' = [evaluation EXCEPT !.feePayer = TRUE]
  /\ UNCHANGED programVars

\* build(args) from the call to the settling of its promise; args.connection
\* and args.feePayer may be left out
Build(connection, feePayer) ==
  /\ BuilderLive
  /\ evaluation.builds < MaxBuilds
  /\ evaluation' = [build(evaluation, connection, feePayer) EXCEPT !.builds = @ + 1]
  /\ UNCHANGED programVars

NextBuilder ==
  \/ \E useVersioned \in BOOLEAN : UseVersionedTransaction(useVersioned)
  \/ SetConnection
  \/ \E feeConfig \in PrioritizationFeeConfigs : SetPriorityFeeConfig(feeConfig)
  \/ \E limitConfig \in ComputeUnitLimitConfigs : SetComputeUnitLimitConfig(limitConfig)
  \/ \E instructions \in InstructionLists : PrependInstructions(instructions)
  \/ \E instructions \in InstructionLists : AppendInstructions(instructions)
  \/ SetRecentBlockhash("b")
  \/ SetFeePayer
  \/ \E connection \in BOOLEAN, feePayer \in BOOLEAN : Build(connection, feePayer)

SpecBuilder == InitBuilder /\ [][NextBuilder]_vars

BudgetInstructions == {"setComputeUnitLimit", "setComputeUnitPrice"}

\* the compute-budget instructions the builder's configuration yields
BudgetOf(b) ==
  (IF b.computeUnitLimitConfig # NoBudgetConfig
     /\ generateComputeLimitInstruction(b.computeUnitLimitConfig) # <<>>
     THEN {"setComputeUnitLimit"} ELSE {})
    \cup (IF b.priorityFeeConfig # NoBudgetConfig THEN {"setComputeUnitPrice"} ELSE {})

Occurrences(list, x) == Cardinality({i \in DOMAIN list : list[i] = x})

BuiltTransaction(b) == b.built.kind \in {"legacy", "versioned"}

\* C34: build() is repeatable.  A build() of a builder with a
\* compute-unit-limit or priority-fee configuration that gives a transaction
\* leaves the builder's instruction list as it was, and the transaction holds
\* each compute-budget instruction of the configuration exactly once, before
\* every caller-supplied instruction.
C34_BuildRepeatable ==
  [][\A connection \in BOOLEAN, feePayer \in BOOLEAN :
       (/\ Build(connection, feePayer)
        /\ BudgetOf(evaluation) # {}
        /\ BuiltTransaction(evaluation'))
         => LET list == evaluation'.built.instructions
            IN  /\ evaluation'.instructions = evaluation.instructions
                /\ \A x \in BudgetInstructions :
                      Occurrences(list, x) = IF x \in BudgetOf(evaluation) THEN 1 ELSE 0
                /\ \A i, j \in DOMAIN list :
                      (list[i] \in BudgetInstructions /\ list[j] \in UserInstructions)
                        => i < j]_vars

\* C35: after setRecentBlockhash(b) the transaction build() returns, legacy
\* or versioned, has recent blockhash b, getLatestBlockhash is not called,
\* and a builder without compute-budget configuration builds without any
\* connection.
C35_RecentBlockhashUsed ==
  [][\A connection \in BOOLEAN, feePayer \in BOOLEAN :
       (Build(connection, feePayer) /\ evaluation.recentBlockhash # "undefined")
         => /\ evaluation'.getLatestBlockhash = evaluation.getLatestBlockhash
            /\ BuiltTransaction(evaluation')
                 => evaluation'.built.recentBlockhash = evaluation.recentBlockhash
            /\ BudgetOf(evaluation) = {} => evaluation'.built # ConnectionError]_vars

\* C36: prependInstructions([i1, ..., ik]) makes the instruction list
\* i1, ..., ik followed by the previous list, and appendInstructions makes it
\* the previous list followed by i1, ..., ik.
C36_PrependKeepsOrder ==
  [][\A instructions \in InstructionLists :
       /\ PrependInstructions(instructions)
            => evaluation'.instructions = instructions \o evaluation.instructions
       /\ AppendInstructions(instructions)
            => evaluation'.instructions = evaluation.instructions \o instructions]_vars

\* C37: the interruptible delay leaks no abort listener.  A delay listener
\* is registered on the token exactly while its loop is inside a pending
\* delay: a delay that has resolved, by expiry or by the abort event, has
\* removed its listener, and once the token has fired none is left.
C37_NoListenerLeak ==
  /\ \A t \in DOMAIN task :
       ListenerOf(t) \in controller.listeners <=> task[t] = "sleeping"
  /\ controller.aborted => controller.listeners \cap SleepListeners = {}

\* C37 witness: the resubmission loop is in its second delay and the polling
\* loop in a delay after a poll; each has one listener registered.
C37_Witness ==
  /\ rpc.sendRawTransaction = 2 /\ task.send = "sleeping"
  /\ rpc.getSignatureStatuses = 2 /\ task.poll = "sleeping"
  /\ controller.listeners \cap SleepListeners = {"sendSleep", "pollSleep"}

====
